---- MODULE Spec2Model ----
(***************************************************************************)
(* Model of the SM-2 scheduler of SRS.py (init_card, update_review) and of *)
(* the review path of flashcards_app.py.                                   *)
(*                                                                         *)
(* Representation.                                                         *)
(*  - A card is a Python dict: a function from a subset of Keys to values, *)
(*    so that an absent key is a key outside its DOMAIN.                   *)
(*  - efactor is a float with at most five decimals, held as an integer    *)
(*    count of 1/EfScale (2.5 is 250000); round(ef, 4) is Round4.          *)
(*  - A date object is <<year, month, day>>; the ISO string date.isoformat *)
(*    produces is held as the number its digits spell (2024-01-08 is       *)
(*    20240108), whose order is the order of the strings.                  *)
(***************************************************************************)
EXTENDS Integers, Sequences, FiniteSets, TLC

VARIABLES
    card,       \* the card dict update_review mutates
    clock,      \* the date of the latest call (today never goes back)
    origin,     \* "init_card": card came from init_card; "any": an arbitrary dict
    calls,      \* number of update_review calls made with a quality in 0..5
    reviews,    \* number of update_review calls that returned
    lastCard,   \* the card as it was when the latest call was made
    lastQ,      \* the latest call's quality
    lastToday,  \* the latest call's today
    lastErr,    \* "init": no call yet; "none": the latest call returned;
                \* otherwise the exception it raised
    hist,       \* the qualities of the update_review calls that returned, in
                \* order
    query,      \* <<>>, or <<[today, days]>>: the argument and the result of
                \* the latest days_until_due call made since the latest
                \* update_review call
    \* flashcards_app.py
    db,             \* the cards table: id -> row
    csv,            \* japanese_flashcards.csv: [exists, rows]
    cards,          \* FlashcardApp.cards, a list of dicts
    current_index,  \* FlashcardApp.current_index
    current_card,   \* FlashcardApp.current_card: 0 while the attribute is not
                    \* set, else the position in cards of the dict it refers to
    pc,             \* where the loading of the cards stands
    appErr,         \* "none", or the handler that ran last and the exception
                    \* it raised
    runs,           \* number of times the application was started
    days,           \* number of days gone by since the first start
    lastImport      \* <<>>, or <<[file, added]>>: the file read by the latest
                    \* load_csv_into_db call and the number it returned

srsVars == <<card, origin, calls, reviews, lastCard, lastQ, lastToday, lastErr, hist,
            query>>
appVars == <<db, csv, cards, current_index, current_card, pc, appErr, runs, days,
            lastImport>>
vars == <<srsVars, clock, appVars>>

\* Number of update_review calls (quality in 0..5) explored on a card from init_card.
MaxReviews == 4

\* Number of update_review calls (quality in 0..5) explored on an arbitrary card.
MaxAnyReviews == 1

\* ------------------------------------------------------------------ dicts

Keys == {"id", "efactor", "interval", "repetition", "due_date",
         "correct_count", "wrong_count", "kana"}

\* card.get(k, d)
Get(c, k, d) == IF k \in DOMAIN c THEN c[k] ELSE d

\* card[k] = v
Put(c, k, v) == [x \in (DOMAIN c) \cup {k} |-> IF x = k THEN v ELSE c[x]]

Max(a, b) == IF a >= b THEN a ELSE b

Min(a, b) == IF a <= b THEN a ELSE b

\* A str is the sequence of its characters; None is a value no str equals.
None == <<"None">>

\* bool(v) for a str or None
Truthy(v) == v # None /\ v # <<>>

\* str.strip()
RECURSIVE LStrip(_)
LStrip(s) == IF s # <<>> /\ Head(s) = " " THEN LStrip(Tail(s)) ELSE s

RECURSIVE RStrip(_)
RStrip(s) ==
    IF s # <<>> /\ s[Len(s)] = " " THEN RStrip(SubSeq(s, 1, Len(s) - 1)) ELSE s

Strip(s) == RStrip(LStrip(s))

\* ------------------------------------------------------------------ dates

IsLeap(y) == (y % 4 = 0 /\ y % 100 # 0) \/ y % 400 = 0

DaysInMonth(y, m) ==
    IF m = 2 THEN (IF IsLeap(y) THEN 29 ELSE 28)
    ELSE IF m \in {4, 6, 9, 11} THEN 30 ELSE 31

\* date + timedelta(days=n), n >= 0
RECURSIVE AddDays(_, _)
AddDays(d, n) ==
    LET dim == DaysInMonth(d[1], d[2]) IN
    IF d[3] + n <= dim THEN <<d[1], d[2], d[3] + n>>
    ELSE AddDays(IF d[2] = 12 THEN <<d[1] + 1, 1, 1>> ELSE <<d[1], d[2] + 1, 1>>,
                 n - (dim - d[3] + 1))

\* date.isoformat(): "YYYY-MM-DD", held as the number YYYYMMDD
IsoFormat(d) == d[1] * 10000 + d[2] * 100 + d[3]

\* date.fromisoformat()
FromIsoFormat(s) == <<s \div 10000, (s \div 100) % 100, s % 100>>

\* Number of days before the first day of month m of year y.
RECURSIVE DaysBeforeMonth(_, _)
DaysBeforeMonth(y, m) ==
    IF m = 1 THEN 0 ELSE DaysBeforeMonth(y, m - 1) + DaysInMonth(y, m - 1)

\* date.toordinal(): 1 for 0001-01-01
Ordinal(d) ==
    LET y == d[1] - 1
    IN  y * 365 + y \div 4 - y \div 100 + y \div 400 + DaysBeforeMonth(d[1], d[2]) + d[3]

\* ------------------------------------------------------------- arithmetic

\* efactor unit: 1/EfScale
EfScale == 100000

DEFAULT_EFACTOR == 250000

\* the floor 1.3 of the ease factor
MinEfactor == 130000

\* floor(num / den) for den > 0
FloorDiv(num, den) ==
    IF num >= 0 THEN num \div den ELSE -((-num + den - 1) \div den)

\* The values round() can give for the real num/den (den > 0): the nearest
\* integer; on an exact tie, the even neighbour when the float operand was
\* exact, and either neighbour when the float product may have fallen on one
\* side of the tie.
RoundHalf(num, den, exact) ==
    LET fl  == FloorDiv(num, den)
        rem == num - fl * den
    IN  IF 2 * rem < den THEN {fl}
        ELSE IF 2 * rem > den THEN {fl + 1}
        ELSE IF exact THEN {IF fl % 2 = 0 THEN fl ELSE fl + 1}
        ELSE {fl, fl + 1}

\* A float holds efactor exactly when it is a multiple of 1/32.
ExactFloat(ef) == ef % (EfScale \div 32) = 0

\* Mutant: math.ceil in place of round.
RoundInterval_Ceil(interval, ef) ==
    LET fl == FloorDiv(interval * ef, EfScale)
    IN  {IF fl * EfScale = interval * ef THEN fl ELSE fl + 1}

\* int(round(interval * efactor))
RoundInterval(interval, ef) == RoundHalf(interval * ef, EfScale, ExactFloat(ef))

\* round(ef, 4): the nearest multiple of 1/10000, as a set for the same reason
Round4(ef) == {10 * r : r \in RoundHalf(ef, 10, FALSE)}

\* 0.1 - (5 - quality) * (0.08 + (5 - quality) * 0.02)
EaseDelta(quality) == 10000 - (5 - quality) * (8000 + (5 - quality) * 2000)

\* ------------------------------------------------------------------- SRS

init_card(card_id, today) ==
    [id |-> card_id, efactor |-> DEFAULT_EFACTOR, interval |-> 0,
     repetition |-> 0, due_date |-> IsoFormat(today), correct_count |-> 0,
     wrong_count |-> 0, kana |-> None]

\* Mutant: a failed review resets repetition but keeps the interval.
ReviewBranch_NoReset(c, quality) ==
    IF quality < 3 THEN
        {[card |-> Put(Put(c, "repetition", 0),
                       "wrong_count", Get(c, "wrong_count", 0) + 1),
          err |-> "none"]}
    ELSE
        LET c1  == Put(c, "correct_count", Get(c, "correct_count", 0) + 1)
            c2  == Put(c1, "repetition", Get(c1, "repetition", 0) + 1)
        IN  IF c2["repetition"] = 1 THEN
                {[card |-> Put(c2, "interval", 1), err |-> "none"]}
            ELSE IF c2["repetition"] = 2 THEN
                {[card |-> Put(c2, "interval", 6), err |-> "none"]}
            ELSE IF "interval" \notin DOMAIN c2 THEN
                {[card |-> c2, err |-> "KeyError"]}
            ELSE
                {[card |-> Put(c2, "interval", i), err |-> "none"] :
                    i \in RoundInterval(c2["interval"],
                                        Get(c2, "efactor", DEFAULT_EFACTOR))}

\* Mutant: the boundary between incorrect and correct is put at 2, so a
\* quality of 2 counts as correct.
ReviewBranch_Boundary(c, quality) ==
    IF quality < 2 THEN
        {[card |-> Put(Put(Put(c, "repetition", 0), "interval", 1),
                       "wrong_count", Get(c, "wrong_count", 0) + 1),
          err |-> "none"]}
    ELSE
        LET c1  == Put(c, "correct_count", Get(c, "correct_count", 0) + 1)
            c2  == Put(c1, "repetition", Get(c1, "repetition", 0) + 1)
        IN  IF c2["repetition"] = 1 THEN
                {[card |-> Put(c2, "interval", 1), err |-> "none"]}
            ELSE IF c2["repetition"] = 2 THEN
                {[card |-> Put(c2, "interval", 6), err |-> "none"]}
            ELSE IF "interval" \notin DOMAIN c2 THEN
                {[card |-> c2, err |-> "KeyError"]}
            ELSE
                {[card |-> Put(c2, "interval", i), err |-> "none"] :
                    i \in RoundInterval(c2["interval"],
                                        Get(c2, "efactor", DEFAULT_EFACTOR))}

\* Mutant: the ease factor is updated before the interval is multiplied, so
\* the third tier uses the new ease factor.
ReviewBranch_NewEase(c, quality) ==
    IF quality < 3 THEN
        {[card |-> Put(Put(Put(c, "repetition", 0), "interval", 1),
                       "wrong_count", Get(c, "wrong_count", 0) + 1),
          err |-> "none"]}
    ELSE
        LET c1  == Put(c, "correct_count", Get(c, "correct_count", 0) + 1)
            c2  == Put(c1, "repetition", Get(c1, "repetition", 0) + 1)
        IN  IF c2["repetition"] = 1 THEN
                {[card |-> Put(c2, "interval", 1), err |-> "none"]}
            ELSE IF c2["repetition"] = 2 THEN
                {[card |-> Put(c2, "interval", 6), err |-> "none"]}
            ELSE IF "interval" \notin DOMAIN c2 THEN
                {[card |-> c2, err |-> "KeyError"]}
            ELSE
                {[card |-> Put(c2, "interval", i), err |-> "none"] :
                    i \in RoundInterval(c2["interval"],
                            Max(MinEfactor, Get(c2, "efactor", DEFAULT_EFACTOR)
                                            + EaseDelta(quality)))}

\* Mutant: the third tier forgets the previous interval and rounds the ease
\* factor alone.
ReviewBranch_NoGrowth(c, quality) ==
    IF quality < 3 THEN
        {[card |-> Put(Put(Put(c, "repetition", 0), "interval", 1),
                       "wrong_count", Get(c, "wrong_count", 0) + 1),
          err |-> "none"]}
    ELSE
        LET c1  == Put(c, "correct_count", Get(c, "correct_count", 0) + 1)
            c2  == Put(c1, "repetition", Get(c1, "repetition", 0) + 1)
        IN  IF c2["repetition"] = 1 THEN
                {[card |-> Put(c2, "interval", 1), err |-> "none"]}
            ELSE IF c2["repetition"] = 2 THEN
                {[card |-> Put(c2, "interval", 6), err |-> "none"]}
            ELSE IF "interval" \notin DOMAIN c2 THEN
                {[card |-> c2, err |-> "KeyError"]}
            ELSE
                {[card |-> Put(c2, "interval", i), err |-> "none"] :
                    i \in RoundInterval(1, Get(c2, "efactor", DEFAULT_EFACTOR))}

\* Mutant: a failed review takes one off the repetition count and does not
\* put it back to 0.
ReviewBranch_Lapse(c, quality) ==
    IF quality < 3 THEN
        {[card |-> Put(Put(Put(c, "repetition", Max(0, Get(c, "repetition", 0) - 1)),
                           "interval", 1),
                       "wrong_count", Get(c, "wrong_count", 0) + 1),
          err |-> "none"]}
    ELSE
        LET c1  == Put(c, "correct_count", Get(c, "correct_count", 0) + 1)
            c2  == Put(c1, "repetition", Get(c1, "repetition", 0) + 1)
        IN  IF c2["repetition"] = 1 THEN
                {[card |-> Put(c2, "interval", 1), err |-> "none"]}
            ELSE IF c2["repetition"] = 2 THEN
                {[card |-> Put(c2, "interval", 6), err |-> "none"]}
            ELSE IF "interval" \notin DOMAIN c2 THEN
                {[card |-> c2, err |-> "KeyError"]}
            ELSE
                {[card |-> Put(c2, "interval", i), err |-> "none"] :
                    i \in RoundInterval(c2["interval"],
                                        Get(c2, "efactor", DEFAULT_EFACTOR))}

\* Mutant: the first two tiers are exchanged, 6 days then 1 day.
ReviewBranch_TiersSwapped(c, quality) ==
    IF quality < 3 THEN
        {[card |-> Put(Put(Put(c, "repetition", 0), "interval", 1),
                       "wrong_count", Get(c, "wrong_count", 0) + 1),
          err |-> "none"]}
    ELSE
        LET c1  == Put(c, "correct_count", Get(c, "correct_count", 0) + 1)
            c2  == Put(c1, "repetition", Get(c1, "repetition", 0) + 1)
        IN  IF c2["repetition"] = 1 THEN
                {[card |-> Put(c2, "interval", 6), err |-> "none"]}
            ELSE IF c2["repetition"] = 2 THEN
                {[card |-> Put(c2, "interval", 1), err |-> "none"]}
            ELSE IF "interval" \notin DOMAIN c2 THEN
                {[card |-> c2, err |-> "KeyError"]}
            ELSE
                {[card |-> Put(c2, "interval", i), err |-> "none"] :
                    i \in RoundInterval(c2["interval"],
                                        Get(c2, "efactor", DEFAULT_EFACTOR))}

\* Lines 56-70: the branch on quality. The dict is mutated in place, so a
\* KeyError at line 70 leaves the counters and repetition already updated.
\* Gives the set of outcomes [card, err].
ReviewBranch(c, quality) ==
    IF quality < 3 THEN
        {[card |-> Put(Put(Put(c, "repetition", 0), "interval", 1),
                       "wrong_count", Get(c, "wrong_count", 0) + 1),
          err |-> "none"]}
    ELSE
        LET c1  == Put(c, "correct_count", Get(c, "correct_count", 0) + 1)
            c2  == Put(c1, "repetition", Get(c1, "repetition", 0) + 1)
        IN  IF c2["repetition"] = 1 THEN
                {[card |-> Put(c2, "interval", 1), err |-> "none"]}
            ELSE IF c2["repetition"] = 2 THEN
                {[card |-> Put(c2, "interval", 6), err |-> "none"]}
            ELSE IF "interval" \notin DOMAIN c2 THEN
                {[card |-> c2, err |-> "KeyError"]}
            ELSE
                {[card |-> Put(c2, "interval", i), err |-> "none"] :
                    i \in RoundInterval(c2["interval"],
                                        Get(c2, "efactor", DEFAULT_EFACTOR))}

\* Mutant: the clamp at 1.3 is left out.
UpdateEase_NoClamp(c, quality) ==
    {Put(c, "efactor", e) :
        e \in Round4(Get(c, "efactor", DEFAULT_EFACTOR) + EaseDelta(quality))}

\* Mutant: the update sits in the branch of the correct answers only.
UpdateEase_CorrectOnly(c, quality) ==
    IF quality < 3 THEN {c}
    ELSE
        LET ef  == Get(c, "efactor", DEFAULT_EFACTOR) + EaseDelta(quality)
            ef2 == IF ef < MinEfactor THEN MinEfactor ELSE ef
        IN  {Put(c, "efactor", e) : e \in Round4(ef2)}

\* Lines 72-77: the ease factor update, clamped at 1.3 and rounded.
UpdateEase(c, quality) ==
    LET ef  == Get(c, "efactor", DEFAULT_EFACTOR) + EaseDelta(quality)
        ef2 == IF ef < MinEfactor THEN MinEfactor ELSE ef
    IN  {Put(c, "efactor", e) : e \in Round4(ef2)}

\* Mutant: the offset is the interval itself, without max(1, ...).
SetDue_NoMin(c, today) ==
    Put(c, "due_date",
        IsoFormat(IF c["interval"] >= 0 THEN AddDays(today, c["interval"]) ELSE today))

\* Lines 79-81: the next due date.
SetDue(c, today) ==
    Put(c, "due_date", IsoFormat(AddDays(today, Max(1, c["interval"]))))

\* Mutant: a quality outside 0..5 is clamped into the range, not rejected.
update_review_Clamp(c, quality, today) ==
    LET q == IF quality < 0 THEN 0 ELSE IF quality > 5 THEN 5 ELSE quality
    IN  UNION {
            IF b.err # "none" THEN {b}
            ELSE {[card |-> SetDue(e, today), err |-> "none"] :
                    e \in UpdateEase(b.card, q)}
            : b \in ReviewBranch(c, q)}

\* update_review(card, quality, today): the set of outcomes [card, err].
update_review(c, quality, today) ==
    IF quality < 0 \/ quality > 5 THEN {[card |-> c, err |-> "ValueError"]}
    ELSE UNION {
        IF b.err # "none" THEN {b}
        ELSE {[card |-> SetDue(e, today), err |-> "none"] :
                e \in UpdateEase(b.card, quality)}
        : b \in ReviewBranch(c, quality)}

\* ------------------------------------------------------------ scheduler

\* The dates a caller can pass as today: the date of the last call, the day
\* after, and the card's due date when that is later.
Todays ==
    {clock, AddDays(clock, 1)} \cup
    (IF "due_date" \in DOMAIN card /\ card["due_date"] > IsoFormat(clock)
     THEN {FromIsoFormat(card["due_date"])} ELSE {})

StartDates == {<<2024, 1, 1>>, <<2024, 12, 30>>}

\* A dict with no key.
EmptyDict == [k \in {} |-> None]

\* The application is not running.
AppOff ==
    /\ db = EmptyDict
    /\ csv = [exists |-> FALSE, rows |-> <<>>]
    /\ cards = <<>>
    /\ current_index = 0
    /\ current_card = 0
    /\ pc = "off"
    /\ appErr = "none"
    /\ runs = 0
    /\ days = 0
    /\ lastImport = <<>>

Init ==
    /\ AppOff
    /\ clock \in StartDates
    /\ card = init_card(<<"x">>, clock)
    /\ origin = "init_card"
    /\ calls = 0
    /\ reviews = 0
    /\ lastCard = card
    /\ lastQ = 0
    /\ lastToday = clock
    /\ lastErr = "init"
    /\ hist = <<>>
    /\ query = <<>>

\* Arbitrary dicts handed to update_review: every field over a few values,
\* among them an ease factor under the floor, ease factors with a fifth
\* decimal, intervals below 1, and any of the optional keys absent.
AnyEfactor == {110000, 130000, 130004, 170000, 181255, 250000}
AnyInterval == {-3, 0, 1, 5, 10}
AnyRepetition == {0, 1, 2, 5}
OptionalKeys == {"efactor", "interval", "repetition", "correct_count", "wrong_count"}

AnyCards ==
    {[k \in Keys \ m |-> c[k]] :
        c \in [id : {<<"x">>}, efactor : AnyEfactor, interval : AnyInterval,
               repetition : AnyRepetition, due_date : {20240111},
               correct_count : {3}, wrong_count : {1}, kana : {<<"k", "a">>}],
        m \in SUBSET OptionalKeys}

InitAny ==
    \/ Init
    \/ /\ AppOff
       /\ clock = <<2024, 1, 1>>
       /\ card \in AnyCards
       /\ origin = "any"
       /\ calls = 0
       /\ reviews = 0
       /\ lastCard = card
       /\ lastQ = 0
       /\ lastToday = clock
       /\ lastErr = "init"
       /\ hist = <<>>
       /\ query = <<>>

Budget == IF origin = "init_card" THEN MaxReviews ELSE MaxAnyReviews

\* update_review(card, quality, today) with a quality in 0..5
Review ==
    /\ calls < Budget
    /\ \E quality \in 0..5, today \in Todays :
        \E r \in update_review(card, quality, today) :
            /\ card' = r.card
            /\ lastErr' = r.err
            /\ lastCard' = card
            /\ lastQ' = quality
            /\ lastToday' = today
            /\ clock' = today
            /\ calls' = calls + 1
            /\ reviews' = IF r.err = "none" THEN reviews + 1 ELSE reviews
            /\ hist' = IF r.err = "none" THEN Append(hist, quality) ELSE hist
            /\ query' = <<>>
            /\ UNCHANGED <<origin, appVars>>

\* update_review(card, quality, today) with a quality outside 0..5
ReviewInvalid ==
    /\ \E quality \in {-1, 6} :
        \E r \in update_review(card, quality, clock) :
            /\ card' = r.card
            /\ lastErr' = r.err
            /\ lastCard' = card
            /\ lastQ' = quality
            /\ lastToday' = clock
            /\ query' = <<>>
            /\ UNCHANGED <<clock, origin, calls, reviews, hist, appVars>>

Next == Review \/ ReviewInvalid

\* Mutant: the query stores the parsed date back, as the date of the day
\* before.
days_until_due_Store(c, today) ==
    LET t   == IF today.str THEN FromIsoFormat(today.value) ELSE today.value
        due == FromIsoFormat(c["due_date"])
    IN  [card |-> Put(c, "due_date", IsoFormat(due) - 1),
         days |-> Ordinal(due) - Ordinal(t)]

\* days_until_due(card, today), today being [str, value]: an ISO string when
\* str, else a date. Gives the dict as the call leaves it and the value
\* returned.
days_until_due(c, today) ==
    LET t   == IF today.str THEN FromIsoFormat(today.value) ELSE today.value
        due == FromIsoFormat(c["due_date"])
    IN  [card |-> c, days |-> Ordinal(due) - Ordinal(t)]

\* A call of days_until_due(card, today), today given as a date or as text.
DaysUntilDue ==
    /\ "due_date" \in DOMAIN card
    /\ \E t \in Todays, str \in BOOLEAN :
        LET r == days_until_due(card, [str |-> str,
                                       value |-> IF str THEN IsoFormat(t) ELSE t])
        IN  /\ card' = r.card
            /\ query' = <<[today |-> t, days |-> r.days]>>
    /\ UNCHANGED <<clock, origin, calls, reviews, lastCard, lastQ, lastToday,
                   lastErr, hist, appVars>>

\* Number of update_review calls between which days_until_due is explored.
MaxQueryReviews == 2

ReviewThenQuery == calls < MaxQueryReviews /\ Review

NextQuery == ReviewThenQuery \/ ReviewInvalid \/ DaysUntilDue

\* update_review and days_until_due on arbitrary dicts.
SpecQuery == InitAny /\ [][NextQuery]_vars

\* A card from init_card, reviewed again and again.
Spec == Init /\ [][Next]_vars

\* update_review on arbitrary dicts as well.
SpecAny == InitAny /\ [][Next]_vars

\* ------------------------------------------------------- flashcards_app

\* Number of events explored in the application: starts, days going by and
\* update_review calls, together.
MaxEvents == 3

Events == runs + days + calls

\* LIMIT of get_due_cards(500)
DueLimit == 500

Columns == {"id", "word_phrase", "translation", "kana", "efactor", "interval",
            "repetition", "due_date", "correct_count", "wrong_count"}

\* Rows of japanese_flashcards.csv: id, word_phrase, translation.
RowA == [id |-> <<"a">>, word_phrase |-> <<"A">>, translation |-> <<"1">>]
RowAPadded == [id |-> <<"a", " ">>, word_phrase |-> <<" ", "A">>, translation |-> <<>>]
RowB == [id |-> <<"b">>, word_phrase |-> <<"B">>, translation |-> <<"2">>]

\* The file is absent, or holds one of a few lists of rows.
CsvFiles ==
    {[exists |-> FALSE, rows |-> <<>>],
     [exists |-> TRUE, rows |-> <<RowB>>],
     [exists |-> TRUE, rows |-> <<RowA, RowAPadded, RowB>>]}

\* What the user types in an askstring dialog for a kana reading (None: the
\* dialog is cancelled).
KanaAnswers == {None, <<" ">>, <<"k", "a", " ">>}

\* Mutant: INSERT OR REPLACE, a row of the file replaces the row of the table
\* that has its id.
RECURSIVE LoadRows_Replace(_, _, _)
LoadRows_Replace(d, rows, today) ==
    IF rows = <<>> THEN [db |-> d, added |-> 0]
    ELSE
        LET row     == Head(rows)
            card_id == Strip(row.id)
            s       == init_card(card_id, today)
            fresh   == card_id \notin DOMAIN d
            d2      == Put(d, card_id,
                           [id |-> card_id, word_phrase |-> Strip(row.word_phrase),
                            translation |-> Strip(row.translation), kana |-> None,
                            efactor |-> s["efactor"], interval |-> s["interval"],
                            repetition |-> s["repetition"], due_date |-> s["due_date"],
                            correct_count |-> 0, wrong_count |-> 0])
            rest    == LoadRows_Replace(d2, Tail(rows), today)
        IN  [db |-> rest.db, added |-> rest.added + (IF fresh THEN 1 ELSE 0)]

\* load_csv_into_db, lines 73-83: the rows in order, a row inserted when no
\* row of the table has its stripped id.
RECURSIVE LoadRows(_, _, _)
LoadRows(d, rows, today) ==
    IF rows = <<>> THEN [db |-> d, added |-> 0]
    ELSE
        LET row         == Head(rows)
            card_id     == Strip(row.id)
            word        == IF Truthy(row.word_phrase) THEN Strip(row.word_phrase) ELSE <<>>
            translation == IF Truthy(row.translation) THEN Strip(row.translation) ELSE <<>>
            s           == init_card(card_id, today)
            fresh       == card_id \notin DOMAIN d
            d2          == IF fresh
                           THEN Put(d, card_id,
                                    [id |-> card_id, word_phrase |-> word,
                                     translation |-> translation, kana |-> None,
                                     efactor |-> Get(s, "efactor", DEFAULT_EFACTOR),
                                     interval |-> Get(s, "interval", 0),
                                     repetition |-> Get(s, "repetition", 0),
                                     due_date |-> Get(s, "due_date", IsoFormat(today)),
                                     correct_count |-> 0, wrong_count |-> 0])
                           ELSE d
            rest        == LoadRows(d2, Tail(rows), today)
        IN  [db |-> rest.db, added |-> rest.added + (IF fresh THEN 1 ELSE 0)]

\* load_csv_into_db(csv_path): the table afterwards and the number added.
load_csv_into_db(d, file, today) ==
    IF ~file.exists THEN [db |-> d, added |-> 0] ELSE LoadRows(d, file.rows, today)

\* get_due_cards(limit): the lists SELECT * FROM cards ORDER BY due_date ASC
\* LIMIT ? can give; rows with the same due_date come in any order.
get_due_cards(d, limit) ==
    LET ids == DOMAIN d
        n   == Cardinality(ids)
        ordered == {o \in [1..n -> ids] :
                        /\ \A i, j \in 1..n : i # j => o[i] # o[j]
                        /\ \A i, j \in 1..n :
                            i < j => d[o[i]]["due_date"] <= d[o[j]]["due_date"]}
    IN  {[i \in 1..Min(limit, n) |-> d[o[i]]] : o \in ordered}

\* Mutant: the UPDATE has no WHERE clause and writes every row.
update_card_in_db_AllRows(d, c) ==
    [i \in DOMAIN d |->
        [d[i] EXCEPT !["kana"] = Get(c, "kana", None),
                     !["efactor"] = c["efactor"],
                     !["interval"] = c["interval"],
                     !["repetition"] = c["repetition"],
                     !["due_date"] = c["due_date"],
                     !["correct_count"] = Get(c, "correct_count", 0),
                     !["wrong_count"] = Get(c, "wrong_count", 0)]]

\* update_card_in_db(card): UPDATE cards SET ... WHERE id = ?
update_card_in_db(d, c) ==
    IF Get(c, "id", None) \notin DOMAIN d THEN d
    ELSE [d EXCEPT ![c["id"]] =
            [@ EXCEPT !["kana"] = Get(c, "kana", None),
                      !["efactor"] = c["efactor"],
                      !["interval"] = c["interval"],
                      !["repetition"] = c["repetition"],
                      !["due_date"] = c["due_date"],
                      !["correct_count"] = Get(c, "correct_count", 0),
                      !["wrong_count"] = Get(c, "wrong_count", 0)]]

\* {**a, **b}
Merge(a, b) ==
    [k \in (DOMAIN a) \cup (DOMAIN b) |-> IF k \in DOMAIN b THEN b[k] ELSE a[k]]

\* review_with_quality, lines 252-257: a field that .get gives None for is
\* set to its default. (The rows of this model hold numbers in these columns:
\* lines 81-82 and 101-102 write nothing else. So None is an absent key.)
Normalize(c) ==
    LET c1 == IF "efactor" \in DOMAIN c THEN c ELSE Put(c, "efactor", DEFAULT_EFACTOR)
        c2 == IF "interval" \in DOMAIN c1 THEN c1 ELSE Put(c1, "interval", 0)
    IN  IF "repetition" \in DOMAIN c2 THEN c2 ELSE Put(c2, "repetition", 0)

\* show_current_card: the position current_card refers to afterwards.
show_current_card(cs, index, current) ==
    IF cs = <<>> THEN current ELSE (index % Len(cs)) + 1

\* The permutations of a list (random.shuffle).
Shuffles(cs) ==
    {[i \in 1..Len(cs) |-> cs[o[i]]] :
        o \in {f \in [1..Len(cs) -> 1..Len(cs)] :
                \A i, j \in 1..Len(cs) : i # j => f[i] # f[j]}}

\* prompt_kana_for_card(card), card being cards[i]: the list and the table
\* after the answer ans.
prompt_kana_for_card(cs, d, i, ans) ==
    IF Truthy(ans)
    THEN LET c == Put(cs[i], "kana", Strip(ans))
         IN  [cards |-> [cs EXCEPT ![i] = c], db |-> update_card_in_db(d, c)]
    ELSE [cards |-> cs, db |-> d]

InitApp ==
    /\ AppOff
    /\ clock = <<2024, 1, 1>>
    /\ card = EmptyDict
    /\ origin = "db"
    /\ calls = 0
    /\ reviews = 0
    /\ lastCard = EmptyDict
    /\ lastQ = 0
    /\ lastToday = clock
    /\ lastErr = "init"
    /\ hist = <<>>
    /\ query = <<>>

\* main(): FlashcardApp() on a file the user may have edited since the
\* last run; the table is what the last run left. __init__, lines 115-119.
Start ==
    /\ Events < MaxEvents
    /\ runs' = runs + 1
    /\ csv' \in CsvFiles
    /\ cards' = <<>>
    /\ current_index' = 0
    /\ current_card' = 0
    /\ pc' = "created"
    /\ appErr' = "none"
    /\ UNCHANGED <<srsVars, clock, db, days, lastImport>>

\* A day goes by (datetime.utcnow().date()).
Tick ==
    /\ Events < MaxEvents
    /\ days' = days + 1
    /\ clock' = AddDays(clock, 1)
    /\ UNCHANGED <<srsVars, db, csv, cards, current_index, current_card, pc,
                   appErr, runs, lastImport>>

\* load_cards_and_start, lines 167-178: the splash, the worker thread started.
LoadCardsAndStart ==
    /\ pc = "created"
    /\ pc' = "loading"
    /\ appErr' = "none"
    /\ UNCHANGED <<srsVars, clock, db, csv, cards, current_index, current_card,
                   runs, days, lastImport>>

\* worker, lines 171-177, the body of the thread: init_db(),
\* load_csv_into_db(CSV_PATH), self.cards = get_due_cards(500), the sleep,
\* the splash closed and show_current_card scheduled. Only the assignment
\* to self.cards is seen by the handlers, so the body is one step.
Worker ==
    /\ pc = "loading"
    /\ LET r == load_csv_into_db(db, csv, clock)
       IN  /\ db' = r.db
           /\ lastImport' = <<[file |-> csv, added |-> r.added]>>
    /\ cards' \in get_due_cards(db', DueLimit)
    /\ pc' = "scheduled"
    /\ UNCHANGED <<srsVars, clock, csv, current_index, current_card,
                   appErr, runs, days>>

\* The callback of self.after(10, self.show_current_card).
ShowFirst ==
    /\ pc = "scheduled"
    /\ pc' = "idle"
    /\ current_card' = show_current_card(cards, current_index, current_card)
    /\ appErr' = "none"
    /\ UNCHANGED <<srsVars, clock, db, csv, cards, current_index, runs, days,
                   lastImport>>

\* The window is built and its buttons can be pressed.
Running == pc # "off"

\* Skip: next_card, lines 191-195.
NextCard ==
    /\ Running
    /\ appErr' = "none"
    /\ IF cards = <<>>
       THEN UNCHANGED <<current_index, current_card>>
       ELSE /\ current_index' = (current_index + 1) % Len(cards)
            /\ current_card' = show_current_card(cards, current_index', current_card)
    /\ UNCHANGED <<srsVars, clock, db, csv, cards, pc, runs, days, lastImport>>

\* Shuffle: shuffle_cards, lines 197-201.
ShuffleCards ==
    /\ Running
    /\ appErr' = "none"
    /\ cards' \in Shuffles(cards)
    /\ current_index' = 0
    /\ current_card' = show_current_card(cards', 0, current_card)
    /\ UNCHANGED <<srsVars, clock, db, csv, pc, runs, days, lastImport>>

\* Show/Hide Translation: toggle_translation, lines 204-208.
ToggleTranslation ==
    /\ Running
    /\ appErr' = IF current_card = 0
                  THEN "toggle_translation: AttributeError" ELSE "none"
    /\ UNCHANGED <<srsVars, clock, db, csv, cards, current_index, current_card,
                   pc, runs, days, lastImport>>

\* Show Kana: show_or_ask_kana, lines 210-223.
ShowOrAskKana ==
    /\ Running
    /\ IF current_card = 0
       THEN /\ appErr' = "show_or_ask_kana: AttributeError"
            /\ UNCHANGED <<cards, db>>
       ELSE /\ appErr' = "none"
            /\ IF Truthy(Get(cards[current_card], "kana", None))
               THEN UNCHANGED <<cards, db>>
               ELSE \E ans \in KanaAnswers :
                        LET r == prompt_kana_for_card(cards, db, current_card, ans)
                        IN  cards' = r.cards /\ db' = r.db
    /\ UNCHANGED <<srsVars, clock, csv, current_index, current_card, pc, runs, days,
                   lastImport>>

\* Add Kana: prompt_add_kana, lines 232-242.
PromptAddKana ==
    /\ Running
    /\ appErr' = "none"
    /\ \E cid \in {None, <<"a">>, <<"b">>, <<"z">>} :
        LET matches == {i \in 1..Len(cards) : Get(cards[i], "id", None) = cid} IN
        IF ~Truthy(cid) \/ matches = {}
        THEN UNCHANGED <<cards, db, current_card>>
        ELSE \E ans \in KanaAnswers :
                LET first == CHOOSE i \in matches : \A j \in matches : i <= j
                    r     == prompt_kana_for_card(cards, db, first, ans)
                IN  /\ cards' = r.cards
                    /\ db' = r.db
                    /\ current_card' = show_current_card(r.cards, current_index,
                                                         current_card)
    /\ UNCHANGED <<srsVars, clock, csv, current_index, pc, runs, days,
                   lastImport>>

\* Easy, Medium, Hard: review_with_quality(5), (4), (2), lines 244-268.
ReviewWithQuality ==
    /\ Running
    /\ \E quality \in {5, 4, 2} :
        IF current_card = 0
        THEN /\ appErr' = "review_with_quality: AttributeError"
             /\ UNCHANGED <<srsVars, cards, db, current_index, current_card>>
        ELSE
            /\ Events < MaxEvents
            /\ LET old == cards[current_card]
                   c   == Normalize(old)
               IN  \E r \in update_review(c, quality, clock) :
                    /\ card' = r.card
                    /\ lastCard' = c
                    /\ lastQ' = quality
                    /\ lastToday' = clock
                    /\ lastErr' = r.err
                    /\ calls' = calls + 1
                    /\ reviews' = IF r.err = "none" THEN reviews + 1 ELSE reviews
                    /\ hist' = IF r.err = "none" THEN Append(hist, quality) ELSE hist
                    /\ appErr' = r.err
                    /\ IF r.err # "none"
                       THEN UNCHANGED <<cards, db, current_index, current_card>>
                       ELSE LET c2 == IF Truthy(Get(old, "kana", None))
                                      THEN Put(r.card, "kana", old["kana"])
                                      ELSE r.card
                            IN  /\ db' = update_card_in_db(db, c2)
                                /\ cards' = [cards EXCEPT
                                        ![(current_index % Len(cards)) + 1] = Merge(old, c2)]
                                /\ current_index' = (current_index + 1) % Len(cards')
                                /\ current_card' = show_current_card(
                                        cards', current_index', current_card)
    /\ UNCHANGED <<origin, query, clock, csv, pc, runs, days, lastImport>>

NextApp ==
    \/ Start
    \/ Tick
    \/ LoadCardsAndStart
    \/ Worker
    \/ ShowFirst
    \/ NextCard
    \/ ShuffleCards
    \/ ToggleTranslation
    \/ ShowOrAskKana
    \/ PromptAddKana
    \/ ReviewWithQuality

\* The application, run and run again on one database.
SpecApp == InitApp /\ [][NextApp]_vars

\* ------------------------------------------------------------------ claims

\* The latest call had a quality in 0..5 and returned.
Returned == lastErr = "none"

\* A call has been made.
Called == lastErr # "init"

\* The same key is absent from both dicts or holds the same value in both.
SameField(c, d, k) ==
    /\ (k \in DOMAIN c) = (k \in DOMAIN d)
    /\ k \in DOMAIN c => c[k] = d[k]

\* C1. Ease floor: a card from init_card always has efactor >= 1.3; every
\* call that returns leaves efactor >= 1.3 whatever it was before (under the
\* floor, or absent); and a card whose efactor is >= 1.3 keeps efactor >= 1.3
\* over every call, the failing ones included.
C1_EaseFloor ==
    /\ origin = "init_card" => card["efactor"] >= MinEfactor
    /\ Returned => "efactor" \in DOMAIN card /\ card["efactor"] >= MinEfactor
    /\ (Called /\ "efactor" \in DOMAIN lastCard /\ lastCard["efactor"] >= MinEfactor)
        => card["efactor"] >= MinEfactor

\* The clamp acted: the formula's value was under 1.3 and 1.3 was stored.
C1_Witness ==
    /\ Returned
    /\ Get(lastCard, "efactor", DEFAULT_EFACTOR) + EaseDelta(lastQ) < MinEfactor
    /\ card["efactor"] = MinEfactor

\* C2. Invalid quality: a call with quality < 0 or quality > 5 raises
\* ValueError and leaves the card exactly as it was, every field included.
C2_InvalidQuality ==
    (Called /\ (lastQ < 0 \/ lastQ > 5))
        => /\ lastErr = "ValueError"
           /\ card = lastCard
           /\ \A k \in Keys : SameField(card, lastCard, k)

\* An already reviewed card was handed an invalid quality.
C2_Witness ==
    /\ lastErr = "ValueError"
    /\ lastQ = 6
    /\ reviews >= 1
    /\ card = lastCard

\* C3. Reset law: a call with quality in {0, 1, 2} returns, with repetition 0
\* and interval 1, wrong_count one more than before (an absent count is 0)
\* and correct_count as it was.
C3_ResetLaw ==
    (Called /\ lastQ \in 0..2)
        => /\ Returned
           /\ card["repetition"] = 0
           /\ card["interval"] = 1
           /\ card["wrong_count"] = Get(lastCard, "wrong_count", 0) + 1
           /\ SameField(card, lastCard, "correct_count")

\* A card with a streak and a longer interval was reset.
C3_Witness ==
    /\ Returned
    /\ lastQ < 3
    /\ Get(lastCard, "repetition", 0) >= 2
    /\ Get(lastCard, "interval", 0) > 1
    /\ card["repetition"] = 0
    /\ card["interval"] = 1

\* C4. Monotonic counters: a call that returns adds exactly 1 to
\* correct_count when quality >= 3 and to wrong_count when quality < 3, and
\* leaves the other counter alone; no call, failing or not, lowers a counter;
\* from init_card the sum of the counters is the number of returned calls.
C4_MonotonicCounters ==
    /\ Returned =>
        /\ Get(card, "correct_count", 0) + Get(card, "wrong_count", 0)
            = Get(lastCard, "correct_count", 0) + Get(lastCard, "wrong_count", 0) + 1
        /\ lastQ >= 3 =>
            /\ card["correct_count"] = Get(lastCard, "correct_count", 0) + 1
            /\ SameField(card, lastCard, "wrong_count")
        /\ lastQ < 3 =>
            /\ card["wrong_count"] = Get(lastCard, "wrong_count", 0) + 1
            /\ SameField(card, lastCard, "correct_count")
    /\ Called =>
        /\ Get(card, "correct_count", 0) >= Get(lastCard, "correct_count", 0)
        /\ Get(card, "wrong_count", 0) >= Get(lastCard, "wrong_count", 0)
    /\ origin = "init_card" => card["correct_count"] + card["wrong_count"] = reviews

\* Both counters have grown on a card from init_card.
C4_Witness ==
    /\ origin = "init_card"
    /\ Returned
    /\ reviews = 3
    /\ card["correct_count"] = 2
    /\ card["wrong_count"] = 1

\* C5. Due date: after a call that returns, due_date is today plus
\* max(1, interval) days, interval being the value the call stored, so
\* due_date is at least the day after today.
C5_DueDate ==
    Returned =>
        /\ card["due_date"] = IsoFormat(AddDays(lastToday, Max(1, card["interval"])))
        /\ card["due_date"] >= IsoFormat(AddDays(lastToday, 1))
        /\ card["due_date"] > IsoFormat(lastToday)

\* An interval below 1 was stored unclamped and the due date is tomorrow.
C5_Witness ==
    /\ Returned
    /\ card["interval"] < 1
    /\ card["due_date"] = IsoFormat(AddDays(lastToday, 1))

\* C6. Interval rule: on a call with quality >= 3 that returns, repetition is
\* one more than before and the interval is 1 when the new repetition is 1,
\* 6 when it is 2, and otherwise round(interval * efactor) of the interval
\* and ease factor held before the call. Two quality-5 reviews of a fresh
\* card give interval 1, then 6.
C6_IntervalRule ==
    /\ (Returned /\ lastQ >= 3) =>
        LET r == Get(lastCard, "repetition", 0) + 1 IN
        /\ card["repetition"] = r
        /\ r = 1 => card["interval"] = 1
        /\ r = 2 => card["interval"] = 6
        /\ r >= 3 => card["interval"] \in
                        RoundInterval(lastCard["interval"],
                                      Get(lastCard, "efactor", DEFAULT_EFACTOR))
    /\ (origin = "init_card" /\ Returned /\ lastQ = 5 /\ reviews = 1)
        => card["interval"] = 1
    /\ (origin = "init_card" /\ Returned /\ lastQ = 5 /\ reviews = 2
            /\ lastCard["efactor"] = DEFAULT_EFACTOR + EaseDelta(5))
        => card["interval"] = 6

\* The third tier acted on interval 6 with ease factor 2.7: 16, which the
\* updated ease factor 2.8 would have made 17.
C6_Witness ==
    /\ Returned
    /\ lastQ = 5
    /\ card["repetition"] = 3
    /\ lastCard["interval"] = 6
    /\ lastCard["efactor"] = 270000
    /\ card["efactor"] = 280000
    /\ card["interval"] = 16

\* C7 as claimed. With today never going back, the due date after a call
\* that returns is never earlier than the due date before it.
C7_DueNeverEarlier ==
    Returned => card["due_date"] >= lastCard["due_date"]

\* C7 as amended. From init_card, with today never going back, the due date
\* after a call that returns is never earlier than the due date before it
\* when the quality is >= 3 or the card was due (today >= due_date); a
\* quality < 3 given before the card is due sets due_date to the day after
\* today, which can be earlier.
C7_DueNeverEarlierUnlessEarlyFail ==
    (Returned /\ (lastQ >= 3 \/ IsoFormat(lastToday) >= lastCard["due_date"]))
        => card["due_date"] >= lastCard["due_date"]

\* A card reviewed correctly before it was due, in its third tier.
C7_Witness ==
    /\ Returned
    /\ lastQ >= 3
    /\ card["repetition"] >= 3
    /\ IsoFormat(lastToday) < lastCard["due_date"]
    /\ card["due_date"] > lastCard["due_date"]

\* The card with 2.5, 0 and 0 in place of an absent efactor, interval and
\* repetition.
Repaired(c) ==
    LET c1 == IF "efactor" \in DOMAIN c THEN c ELSE Put(c, "efactor", DEFAULT_EFACTOR)
        c2 == IF "interval" \in DOMAIN c1 THEN c1 ELSE Put(c1, "interval", 0)
    IN  IF "repetition" \in DOMAIN c2 THEN c2 ELSE Put(c2, "repetition", 0)

\* C8 as claimed. A call with quality in 0..5 on a card lacking any of
\* efactor, interval, repetition returns, with the card the call on the
\* repaired card gives.
C8_MissingFieldRepair ==
    (Called /\ lastQ \in 0..5 /\ Repaired(lastCard) # lastCard)
        => /\ Returned
           /\ [card |-> card, err |-> "none"]
                \in update_review(Repaired(lastCard), lastQ, lastToday)

\* The keys update_review assigns.
SchedulingKeys == {"efactor", "interval", "repetition", "due_date",
                   "correct_count", "wrong_count"}

\* Every call, failing or not, leaves every key but the scheduling keys as
\* it was (id and kana among them), and a call that returns leaves one of
\* the two counters as it was.
SchedulerFrame ==
    /\ Called =>
        \A k \in ((DOMAIN card) \cup (DOMAIN lastCard)) \ SchedulingKeys :
            SameField(card, lastCard, k)
    /\ Called => SameField(card, lastCard, "id") /\ SameField(card, lastCard, "kana")
    /\ Returned =>
        \/ SameField(card, lastCard, "correct_count")
        \/ SameField(card, lastCard, "wrong_count")

\* A step of review_with_quality in which update_review returned.
ReviewStep == calls' = calls + 1 /\ lastErr' = "none"

\* Over such a step the reviewed card keeps its id, words and kana in the
\* list and in its row, the row's kana is the kana the card had in the list,
\* and no other card and no other row changes.
AppFrame ==
    LET i  == (current_index % Len(cards)) + 1
        id == cards[i]["id"]
    IN  /\ Len(cards') = Len(cards)
        /\ DOMAIN db' = DOMAIN db
        /\ id \in DOMAIN db
        /\ \A k \in {"id", "word_phrase", "translation", "kana"} :
            /\ cards'[i][k] = cards[i][k]
            /\ db'[id][k] = db[id][k]
        /\ db'[id]["kana"] = cards[i]["kana"]
        /\ \A j \in 1..Len(cards) : j # i => cards'[j] = cards[j]
        /\ \A o \in DOMAIN db : o # id => db'[o] = db[o]

\* C9. Frame of review: update_review changes only efactor, interval,
\* repetition, due_date and one counter, never id or kana; and over
\* review_with_quality the reviewed card's kana, in the list and in the row
\* written to the table, is what it was, and no other row is modified.
C9_ReviewFrame == []SchedulerFrame /\ [][ReviewStep => AppFrame]_vars

\* A card with a kana reading was reviewed, beside another card: the list
\* and the table hold what update_review returned, kana included.
C9_Witness ==
    /\ Returned
    /\ Len(cards) = 2
    /\ Truthy(card["kana"])
    /\ \E i \in 1..Len(cards) : cards[i] = card
    /\ db[card["id"]] = card

\* The fields C10 lists.
Shows(c, interval, repetition, efactor, due, correct, wrong) ==
    /\ c["interval"] = interval
    /\ c["repetition"] = repetition
    /\ c["efactor"] = efactor
    /\ c["due_date"] = due
    /\ c["correct_count"] = correct
    /\ c["wrong_count"] = wrong

\* The first two steps of the scenario of C10: init_card("x") reviewed with
\* quality 5 on 2024-01-01, then on 2024-01-02.
C10_Step1 ==
    (Returned /\ lastCard = init_card(<<"x">>, <<2024, 1, 1>>) /\ lastQ = 5
        /\ lastToday = <<2024, 1, 1>>)
    => Shows(card, 1, 1, 260000, 20240102, 1, 0)

C10_Step2 ==
    (Returned /\ reviews = 2 /\ Shows(lastCard, 1, 1, 260000, 20240102, 1, 0)
        /\ lastQ = 5 /\ lastToday = <<2024, 1, 2>>)
    => Shows(card, 6, 2, 270000, 20240108, 2, 0)

\* The third step is made: quality 5 on 2024-01-08.
C10_Step3Made ==
    /\ Returned
    /\ reviews = 3
    /\ Shows(lastCard, 6, 2, 270000, 20240108, 2, 0)
    /\ lastQ = 5
    /\ lastToday = <<2024, 1, 8>>

\* C10 as claimed. The third review gives interval 19 and due 2024-01-27.
C10_Scenario ==
    /\ C10_Step1
    /\ C10_Step2
    /\ C10_Step3Made => Shows(card, 19, 3, 280000, 20240127, 3, 0)

\* C10 as amended. The third review gives interval 16 = round(6 * 2.7) and
\* due 2024-01-24; the rest is as claimed.
C10_ScenarioAmended ==
    /\ C10_Step1
    /\ C10_Step2
    /\ C10_Step3Made => Shows(card, 16, 3, 280000, 20240124, 3, 0)

\* The third review of the scenario has been made.
C10_Witness ==
    /\ C10_Step3Made
    /\ card["id"] = <<"x">>
    /\ card["interval"] = 16


\* What the latest days_until_due call returned, against the dict as it is:
\* the due date lies exactly that many days from the today of the call, a
\* value of at most 0 means a due date not after that today, and a call for
\* the today of an update_review that has just returned gives
\* max(1, interval).
QueryState ==
    query # <<>> =>
        LET t   == query[1].today
            n   == query[1].days
            due == card["due_date"]
        IN  /\ IF n >= 0
               THEN due = IsoFormat(AddDays(t, n))
               ELSE IsoFormat(t) = IsoFormat(AddDays(FromIsoFormat(due), 0 - n))
            /\ (n <= 0) <=> (due <= IsoFormat(t))
            /\ (Returned /\ t = lastToday) =>
                   /\ n = Max(1, card["interval"])
                   /\ n >= 1

\* A step that is a days_until_due call.
QueryStep == query' # <<>>

\* The call changes nothing of the dict, and gives the value of the call
\* before it when the today is the same.
QueryPure ==
    /\ card' = card
    /\ (query # <<>> /\ query[1].today = query'[1].today) =>
           query'[1].days = query[1].days

\* C11: days_until_due returns exactly due_date - today in whole days (at
\* most 0 when the card is due or overdue), changes no field of the card,
\* returns the same value when called again with the same arguments, and
\* right after update_review(card, quality, today) has returned it gives
\* max(1, interval), at least 1, for the same today.
C11_DaysUntilDue == []QueryState /\ [][QueryStep => QueryPure]_vars

\* A query for the today of a review that has just returned, on a card whose
\* interval has grown to six days or more.
C11_Witness ==
    /\ query # <<>>
    /\ Returned
    /\ query[1].today = lastToday
    /\ query[1].days >= 6
    /\ query[1].days = card["interval"]


\* A row as the import inserts it.
FreshRow(r) ==
    /\ r["efactor"] = DEFAULT_EFACTOR
    /\ r["interval"] = 0
    /\ r["repetition"] = 0
    /\ r["correct_count"] = 0
    /\ r["wrong_count"] = 0
    /\ r["kana"] = None

\* A step that is the worker's load_csv_into_db call.
ImportStep == pc = "loading" /\ pc' = "scheduled"

\* Every row of the table is left as it is, every row added is a fresh one
\* for an id of the file that the table did not have, the number returned
\* counts the rows added, and it is 0 when the file is the file of the import
\* before.
ImportKeeps ==
    LET new == DOMAIN db' \ DOMAIN db
    IN  /\ \A i \in DOMAIN db : i \in DOMAIN db' /\ db'[i] = db[i]
        /\ \A i \in new :
            /\ FreshRow(db'[i])
            /\ db'[i]["id"] = i
            /\ csv.exists
            /\ \E k \in 1..Len(csv.rows) : Strip(csv.rows[k].id) = i
        /\ csv.exists =>
            \A k \in 1..Len(csv.rows) : Strip(csv.rows[k].id) \in DOMAIN db'
        /\ lastImport'[1].added = Cardinality(new)
        /\ (lastImport # <<>> /\ lastImport[1].file = csv) =>
               lastImport'[1].added = 0

\* C12: load_csv_into_db inserts a freshly initialised card (ease factor
\* 2.5, interval 0, repetition 0, counters 0, no kana) only for ids the
\* table does not have; whatever imports, reviews and kana edits came
\* before, a row of the table keeps every field across an import; and
\* importing the same file again adds 0 cards.
C12_ImportNeverOverwrites == [][ImportStep => ImportKeeps]_vars

\* The second start has imported the file of the first start again, adding
\* nothing, over a table that holds a row changed by a review or a kana edit.
C12_Witness ==
    /\ pc = "scheduled"
    /\ runs >= 2
    /\ lastImport # <<>>
    /\ lastImport[1].file.exists
    /\ lastImport[1].added = 0
    /\ \E i \in DOMAIN db : ~FreshRow(db[i])


\* Number of qualities of 3 or more at the end of h, after the last quality
\* under 3.
RECURSIVE Streak(_)
Streak(h) ==
    IF h = <<>> \/ h[Len(h)] < 3 THEN 0
    ELSE 1 + Streak(SubSeq(h, 1, Len(h) - 1))

\* C13: on a card from init_card, repetition is the number of reviews with
\* quality 3 or more made since the latest review with quality under 3 (or
\* since the card was created); it is never negative and never more than
\* correct_count.
C13_RepetitionIsStreak ==
    origin = "init_card" =>
        /\ card["repetition"] = Streak(hist)
        /\ card["repetition"] >= 0
        /\ card["repetition"] <= card["correct_count"]

\* A correct review, a failed one, then two correct ones: the streak is 2 and
\* correct_count is 3.
C13_Witness ==
    /\ origin = "init_card"
    /\ Len(hist) = 4
    /\ hist[1] >= 3
    /\ hist[2] < 3
    /\ hist[3] >= 3
    /\ hist[4] >= 3
    /\ card["repetition"] = 2
    /\ card["correct_count"] = 3


\* The ease factor the latest call started from, and the one it stored.
OldEase == Get(lastCard, "efactor", DEFAULT_EFACTOR)
NewEase == card["efactor"]

\* d(q) for q = 0..5: -0.80, -0.54, -0.32, -0.14, 0.00, +0.10
DeltaTable == <<-80000, -54000, -32000, -14000, 0, 10000>>

\* The stored value is max(1.3, old + d(q)) rounded to 4 decimals, on either
\* branch.
EaseFormula == NewEase \in Round4(Max(MinEfactor, OldEase + DeltaTable[lastQ + 1]))

FourDecimals(e) == e % (EfScale \div 10000) = 0

InCorrectRun ==
    /\ Len(hist) >= 2
    /\ hist[Len(hist)] >= 3
    /\ hist[Len(hist) - 1] >= 3

\* C15: on a card from init_card, the interval is at least 1 after every
\* review that returned, and a correct review that follows a correct review
\* stores an interval that is not less than the one it found.
C15_IntervalGrows ==
    (origin = "init_card" /\ Called /\ Returned) =>
        /\ card["interval"] >= 1
        /\ InCorrectRun => card["interval"] >= lastCard["interval"]

\* The fourth correct review in a row has multiplied an interval that the
\* third had already multiplied.
C15_Witness ==
    /\ origin = "init_card"
    /\ Called
    /\ Returned
    /\ Len(hist) = 4
    /\ \A i \in 1..4 : hist[i] >= 3
    /\ lastCard["interval"] > 6
    /\ card["interval"] > lastCard["interval"]


\* A press of Easy, Medium or Hard while no card is shown: the window is
\* built and show_current_card has not yet stored a card, the loader not
\* having got that far or the list being empty.
NoCardPress == Running /\ current_card = 0 /\ ReviewWithQuality

\* C16: a difficulty button pressed while no card is shown does nothing: the
\* handler raises no error and no card of the list or of the table changes.
C16_NoCardNoOp ==
    [][NoCardPress => (appErr' = "none" /\ cards' = cards /\ db' = db)]_vars

====
